---- MODULE Spec2Model ----
\* Model of bizbuysell_crawler.py: wait_for_job_completion (the bounded polling
\* loop) and crawl_bizbuysell (credential check, submission, poll, CSV output).
\* The program is sequential; pc is the position of the single thread.
EXTENDS Integers, Sequences, FiniteSets, TLC

\* ---------------------------------------------------------------- bounds
MaxAttempts == 3   \* largest max_attempts tried when poll is called directly
MaxDelay == 1      \* largest delay tried when poll is called directly
MaxItems == 2      \* longest "data" list in a status body

\* ------------------------------------------------------ program constants
DefaultMaxAttempts == 30
DefaultDelay == 2
HttpOk == 200

\* --------------------------------------------------------- python values
\* An optional value (None, or a missing dict key) is a sequence of length <= 1.
None == <<>>
Some(x) == <<x>>
\* dict.get(key, default)
DictGet(o, default) == IF o = <<>> THEN default ELSE o[1]

\* ------------------------------------------------- the remote service
JobIds == {"job-1", "job-2"}
StatusCodes == {200, 500}
StatusValues == {"completed", "failed", "pending"}
Descriptions == {"Widget maker", "Acme supplies"}

\* page metadata: a dict with an optional "description"
Metadatas == {[description |-> None]} \cup {[description |-> Some(d)] : d \in Descriptions}
\* one element of "data": a dict with an optional "metadata"
Items == {[metadata |-> None]} \cup {[metadata |-> Some(m)] : m \in Metadatas}
DataLists == UNION {[1..n -> Items] : n \in 0..MaxItems}

\* A response body. kind "malformed": not JSON, .json() raises.
\* kind "list": JSON that is not an object, .get raises AttributeError.
\* kind "dict": a JSON object with optional "status" and optional "data".
MalformedBody == [kind |-> "malformed", status |-> None, data |-> None]
ListBody == [kind |-> "list", status |-> None, data |-> None]
DictBodies == {[kind |-> "dict", status |-> s, data |-> d] :
                 s \in {None} \cup {Some(v) : v \in StatusValues},
                 d \in {None} \cup {Some(l) : l \in DataLists}}
StatusBodies == {MalformedBody, ListBody} \cup DictBodies
StatusResponses == [status_code : StatusCodes, body : StatusBodies]

\* Body of the submission response: kind "malformed" (.json() raises),
\* kind "null" (JSON null: '"jobId" in data' raises TypeError),
\* kind "dict" with an optional "jobId".
SubmitBodies == {[kind |-> "malformed", jobId |-> None], [kind |-> "null", jobId |-> None]}
                \cup {[kind |-> "dict", jobId |-> j] : j \in {None} \cup {Some(i) : i \in JobIds}}
SubmitResponses == [status_code : StatusCodes, body : SubmitBodies]

Columns == <<"company_description", "company_industry", "who_they_serve">>

VARIABLES
  entry,            \* function the caller invoked: "poll" or "crawl"
  api_key,          \* os.getenv("FIREFLOW_API_KEY") after load_dotenv()
  pc,               \* position of the thread
  job_id,           \* argument of wait_for_job_completion
  max_attempts,     \* argument of wait_for_job_completion (0 before the call)
  delay,            \* argument of wait_for_job_completion
  attempt,          \* loop variable of 'for attempt in range(max_attempts)'
  status_response,  \* the response of the latest requests.get, None if it raised
  poll_outcome,     \* how wait_for_job_completion ended ("none" while it has not)
  completed_data,   \* value returned by wait_for_job_completion
  result,           \* value returned by crawl_bizbuysell
  raised,           \* an exception left the function the caller invoked
  fault,            \* place where an exception was raised ("none" if nowhere)
  file,             \* bizbuysell_listings.csv: None, or header and rows
  posts,            \* number of requests.post calls
  queries,          \* number of requests.get calls
  sleeps,           \* number of time.sleep calls
  slept,            \* total seconds passed to time.sleep
  writes,           \* number of to_csv calls
  nonterminal,      \* number of received responses: HTTP 200, status not terminal
  submitted_job,    \* jobId of the submission response, None if there was none
  query_target,     \* job id in the URL of the latest status query
  response,         \* the response of requests.post, None before it and if it raised
  poll_calls        \* number of calls of wait_for_job_completion

vars == <<entry, api_key, pc, job_id, max_attempts, delay, attempt, status_response,
          poll_outcome, completed_data, result, raised, fault, file, posts, queries,
          sleeps, slept, writes, nonterminal, submitted_job, query_target, response,
          poll_calls>>

pollVars == <<job_id, max_attempts, delay, attempt, status_response, poll_outcome,
              completed_data, queries, sleeps, slept, nonterminal, query_target>>

\* ------------------------------------------------------------- helpers
\* variant: only an unset variable counts as missing ('api_key is None')
ApiKeyIsNone(k) == k = None

\* 'not api_key': None and the empty string are falsy
ApiKeyMissing(k) == k = None \/ k = Some("")

\* variant: 'if response.status_code' (any status code is truthy)
SubmitOkTruthy(code) == code # 0

\* 'if response.status_code == 200' on the submission response
SubmitOk(code) == code = HttpOk

\* variant: the job id is a fixed string instead of the one in the response
JobIdFixed(data) == "job-1"

\* 'job_id = data["jobId"]'
JobIdOf(data) == data.jobId[1]

\* variant: range(max_attempts + 1)
RangeHasNextInclusive(a, m) == a <= m

\* variant: range(max_attempts - 1)
RangeHasNextShort(a, m) == a < m - 1

\* 'for attempt in range(max_attempts)': the loop body runs while attempt < max_attempts
RangeHasNext(a, m) == a < m

\* variant: 'if status_response.status_code' (any status code is truthy)
StatusOkTruthy(code) == code # 0

\* 'if status_response.status_code == 200'
StatusOk(code) == code = HttpOk

\* variant: 'if current_status in ("completed", "failed")' returns the body
StatusBranchFailedCompleted(current_status) ==
  IF current_status \in {Some("completed"), Some("failed")} THEN "completed" ELSE "wait"

\* variant: the 'elif current_status == "failed"' branch is missing
StatusBranchNoFailed(current_status) ==
  IF current_status = Some("completed") THEN "completed" ELSE "wait"

\* the if/elif/else on current_status = status_data.get("status")
StatusBranch(current_status) ==
  IF current_status = Some("completed") THEN "completed"
  ELSE IF current_status = Some("failed") THEN "failed"
  ELSE "wait"

\* variant: the body is returned without its "data"
CompletedReturnNoData(status_data) == Some([status_data EXCEPT !.data = None])

\* 'return status_data': the whole decoded body
CompletedReturn(status_data) == Some(status_data)

\* truth value of the value returned by wait_for_job_completion:
\* None and the empty dict are falsy
Truthy(o) == o # None /\ ~(o[1].status = None /\ o[1].data = None)

\* completed_data.get("data", [{}])
DataOf(body) == DictGet(body.data, <<[metadata |-> None]>>)

\* variant: company_industry is filled from the page description too
MakeRowIndustryFilled(crawl_data) ==
  LET d == DictGet(DictGet(crawl_data.metadata, [description |-> None]).description, "no info") IN
  [company_description |-> d, company_industry |-> d, who_they_serve |-> "no info"]

\* crawl_data.get("metadata", {}).get("description", "no info") and the two literals
MakeRow(crawl_data) ==
  [company_description |-> DictGet(DictGet(crawl_data.metadata, [description |-> None]).description, "no info"),
   company_industry |-> "no info",
   who_they_serve |-> "no info"]

\* pd.DataFrame([row]).to_csv(path, index=False): a header line and one line per row
ToCsv(df) == [header |-> Columns, rows |-> df]

\* a received response that is HTTP 200 with a decodable body and a status that
\* is neither "completed" nor "failed" (an absent status included)
NonTerminalResponse(r) ==
  /\ r.status_code = 200
  /\ r.body.kind = "dict"
  /\ r.body.status \notin {Some("completed"), Some("failed")}

\* -------------------------------------------------------------- Init
Init ==
  /\ entry \in {"poll", "crawl"}
  /\ api_key \in IF entry = "crawl" THEN {None, Some(""), Some("fc-key")} ELSE {Some("fc-key")}
  /\ pc = "start"
  /\ job_id = None
  /\ max_attempts = 0
  /\ delay = 0
  /\ attempt = 0
  /\ status_response = None
  /\ poll_outcome = "none"
  /\ completed_data = None
  /\ result = None
  /\ raised = FALSE
  /\ fault = "none"
  /\ file = None
  /\ posts = 0
  /\ queries = 0
  /\ sleeps = 0
  /\ slept = 0
  /\ writes = 0
  /\ nonterminal = 0
  /\ submitted_job = None
  /\ query_target = None
  /\ response = None
  /\ poll_calls = 0

\* ----------------------------------------------- wait_for_job_completion
\* wait_for_job_completion starts: arguments bound, the for loop at its head
EnterPoll(j, m, d) ==
  /\ pc' = "loop"
  /\ job_id' = Some(j)
  /\ max_attempts' = m
  /\ delay' = d
  /\ attempt' = 0
  /\ poll_calls' = poll_calls + 1

\* variant: the "failed" branch returns the decoded body ('return status_data')
PollReturnFailedBody(outcome, ret) ==
  /\ poll_outcome' = outcome
  /\ completed_data' = IF outcome = "Failed" THEN Some(status_response[1].body) ELSE ret
  /\ pc' = IF entry = "crawl" THEN "returned" ELSE "done"
  /\ UNCHANGED <<result, raised, fault>>

\* wait_for_job_completion returns value ret; in crawl_bizbuysell the caller
\* continues at 'if completed_data'
PollReturn(outcome, ret) ==
  /\ poll_outcome' = outcome
  /\ completed_data' = ret
  /\ pc' = IF entry = "crawl" THEN "returned" ELSE "done"
  /\ UNCHANGED <<result, raised, fault>>

\* variant: crawl_bizbuysell calls wait_for_job_completion outside its try block
PollRaiseUncaught(where) ==
  /\ poll_outcome' = "Raised"
  /\ completed_data' = None
  /\ fault' = where
  /\ pc' = "done"
  /\ raised' = TRUE
  /\ result' = None

\* an exception leaves wait_for_job_completion: crawl_bizbuysell catches it in
\* 'except Exception' and returns None; a direct caller receives the exception
PollRaise(where) ==
  /\ poll_outcome' = "Raised"
  /\ completed_data' = None
  /\ fault' = where
  /\ pc' = "done"
  /\ raised' = (entry = "poll")
  /\ result' = None

\* the caller invokes wait_for_job_completion directly
CallPoll ==
  /\ pc = "start"
  /\ entry = "poll"
  /\ \E j \in JobIds, m \in 1..MaxAttempts, d \in 0..MaxDelay : EnterPoll(j, m, d)
  /\ UNCHANGED <<entry, api_key, response, status_response, poll_outcome, completed_data, result,
                 raised, fault, file, posts, queries, sleeps, slept, writes, nonterminal,
                 submitted_job, query_target>>

\* lines 25-29: one iteration starts, requests.get answers
StatusQuery ==
  /\ pc = "loop"
  /\ RangeHasNext(attempt, max_attempts)
  /\ queries' = queries + 1
  /\ query_target' = job_id
  /\ \E r \in StatusResponses :
       /\ status_response' = Some(r)
       /\ nonterminal' = nonterminal + (IF NonTerminalResponse(r) THEN 1 ELSE 0)
  /\ pc' = "inspect"
  /\ UNCHANGED <<entry, api_key, response, poll_calls, job_id, max_attempts, delay, attempt, poll_outcome,
                 completed_data, result, raised, fault, file, posts, sleeps, slept,
                 writes, submitted_job>>

\* lines 26-29: requests.get raises (connection error, timeout of the library)
StatusQueryRaises ==
  /\ pc = "loop"
  /\ RangeHasNext(attempt, max_attempts)
  /\ queries' = queries + 1
  /\ query_target' = job_id
  /\ status_response' = None
  /\ PollRaise("get")
  /\ UNCHANGED <<entry, api_key, response, poll_calls, job_id, max_attempts, delay, attempt, file, posts,
                 sleeps, slept, writes, nonterminal, submitted_job>>

\* lines 31-47: the decision on the response of this attempt
InspectStatus ==
  /\ pc = "inspect"
  /\ LET r == status_response[1] IN
       IF StatusOk(r.status_code)
       THEN IF r.body.kind # "dict"
            THEN PollRaise("decode")
            ELSE CASE StatusBranch(r.body.status) = "completed" ->
                        PollReturn("Success", CompletedReturn(r.body))
                   [] StatusBranch(r.body.status) = "failed" ->
                        PollReturn("Failed", None)
                   [] OTHER ->
                        /\ pc' = "sleep"
                        /\ UNCHANGED <<poll_outcome, completed_data, result, raised, fault>>
       ELSE PollReturn("TransportError", None)
  /\ UNCHANGED <<entry, api_key, response, poll_calls, job_id, max_attempts, delay, attempt, status_response,
                 file, posts, queries, sleeps, slept, writes, nonterminal, submitted_job,
                 query_target>>

\* variant: time.sleep(delay) is called twice in the else branch
SleepTwice ==
  /\ pc = "sleep"
  /\ sleeps' = sleeps + 2
  /\ slept' = slept + 2 * delay
  /\ attempt' = attempt + 1
  /\ pc' = "loop"
  /\ UNCHANGED <<entry, api_key, response, poll_calls, job_id, max_attempts, delay,
                 status_response, poll_outcome, completed_data, result, raised, fault,
                 file, posts, queries, writes, nonterminal, submitted_job, query_target>>

\* line 43: time.sleep(delay), then the for loop advances
Sleep ==
  /\ pc = "sleep"
  /\ sleeps' = sleeps + 1
  /\ slept' = slept + delay
  /\ attempt' = attempt + 1
  /\ pc' = "loop"
  /\ UNCHANGED <<entry, api_key, response, poll_calls, job_id, max_attempts, delay, status_response,
                 poll_outcome, completed_data, result, raised, fault, file, posts,
                 queries, writes, nonterminal, submitted_job, query_target>>

\* lines 49-50: range(max_attempts) is exhausted
TimedOut ==
  /\ pc = "loop"
  /\ ~RangeHasNext(attempt, max_attempts)
  /\ PollReturn("TimedOut", None)
  /\ UNCHANGED <<entry, api_key, response, poll_calls, job_id, max_attempts, delay, attempt, status_response,
                 file, posts, queries, sleeps, slept, writes, nonterminal, submitted_job,
                 query_target>>

\* ------------------------------------------------------ crawl_bizbuysell
\* lines 54-63: the credential check
CheckApiKey ==
  /\ pc = "start"
  /\ entry = "crawl"
  /\ pc' = IF ApiKeyMissing(api_key) THEN "done" ELSE "submit"
  /\ UNCHANGED <<entry, api_key, response, poll_calls, result, raised, fault, file, posts, writes,
                 submitted_job>>
  /\ UNCHANGED pollVars

\* crawl_bizbuysell returns None without calling wait_for_job_completion
Abort(where) ==
  /\ pc' = "done"
  /\ fault' = where
  /\ UNCHANGED <<job_id, max_attempts, delay, attempt, submitted_job, poll_calls>>

\* lines 106-115 and 128-134: requests.post answers, the response is examined and
\* wait_for_job_completion(job_id, headers) is called with its default arguments
SubmitJob ==
  /\ pc = "submit"
  /\ posts' = posts + 1
  /\ \E r \in SubmitResponses :
       /\ response' = Some(r)
       /\ IF ~SubmitOk(r.status_code) THEN Abort("none")
          ELSE IF r.body.kind # "dict" THEN Abort("decode")
          ELSE IF r.body.jobId = None THEN Abort("none")
          ELSE /\ EnterPoll(JobIdOf(r.body), DefaultMaxAttempts, DefaultDelay)
               /\ submitted_job' = r.body.jobId
               /\ UNCHANGED fault
  /\ UNCHANGED <<entry, api_key, status_response, poll_outcome, completed_data, result,
                 raised, file, queries, sleeps, slept, writes, nonterminal, query_target>>

\* line 106: requests.post raises; 'except Exception' returns None
SubmitRaises ==
  /\ pc = "submit"
  /\ posts' = posts + 1
  /\ Abort("post")
  /\ UNCHANGED <<entry, api_key, response, status_response, poll_outcome, completed_data, result,
                 raised, file, queries, sleeps, slept, writes, nonterminal, query_target>>

\* lines 117-127: the value of wait_for_job_completion is examined; a truthy value
\* is turned into one row, written to the CSV file and returned
ProcessCompleted ==
  /\ pc = "returned"
  /\ pc' = "done"
  /\ IF Truthy(completed_data)
     THEN LET data == DataOf(completed_data[1]) IN
            IF Len(data) = 0
            THEN /\ fault' = "process"     \* [][0]: IndexError, caught at line 136
                 /\ UNCHANGED <<file, writes, result>>
            ELSE LET df == <<MakeRow(data[1])>> IN
                   /\ file' = Some(ToCsv(df))
                   /\ writes' = writes + 1
                   /\ result' = Some(df)
                   /\ UNCHANGED fault
     ELSE UNCHANGED <<file, writes, result, fault>>
  /\ UNCHANGED <<entry, api_key, response, poll_calls, raised, posts, submitted_job>>
  /\ UNCHANGED pollVars

\* line 125: to_csv raises when it opens the file (no permission, no such
\* directory): nothing is written, 'except Exception' returns None
WriteRaises ==
  /\ pc = "returned"
  /\ Truthy(completed_data)
  /\ Len(DataOf(completed_data[1])) > 0
  /\ pc' = "done"
  /\ fault' = "write"
  /\ UNCHANGED <<entry, api_key, response, poll_calls, raised, posts, submitted_job,
                 file, writes, result>>
  /\ UNCHANGED pollVars

Next ==
  \/ CallPoll
  \/ StatusQuery
  \/ StatusQueryRaises
  \/ InspectStatus
  \/ Sleep
  \/ TimedOut
  \/ CheckApiKey
  \/ SubmitJob
  \/ SubmitRaises
  \/ ProcessCompleted
  \/ WriteRaises

Spec == Init /\ [][Next]_vars

TypeOK ==
  /\ entry \in {"poll", "crawl"}
  /\ pc \in {"start", "submit", "loop", "inspect", "sleep", "returned", "done"}
  /\ poll_outcome \in {"none", "Success", "Failed", "TimedOut", "TransportError", "Raised"}
  /\ attempt \in 0..max_attempts
  /\ queries \in 0..max_attempts
  /\ raised \in BOOLEAN

\* ------------------------------------------------------------ properties
PollCalled == job_id # None
PollEnded == poll_outcome # "none"
\* the response of the latest status query has been received and acted on
LastHandled == status_response # None /\ pc # "inspect"
LastCode == status_response[1].status_code
LastBody == status_response[1].body

\* C1: one call of wait_for_job_completion performs at most max_attempts status
\* queries, and every attempt of the loop performs exactly one: at the loop head
\* the number of queries equals the number of finished attempts, inside an
\* attempt it is one more.
C1_QueriesBounded ==
  /\ queries <= max_attempts
  /\ pc = "loop" => queries = attempt
  /\ pc \in {"inspect", "sleep"} => queries = attempt + 1
  /\ PollEnded => queries = IF poll_outcome = "TimedOut" THEN attempt ELSE attempt + 1

C1_Witness ==
  /\ entry = "poll"
  /\ poll_outcome = "TimedOut"
  /\ max_attempts = MaxAttempts
  /\ queries = max_attempts

\* C2: one call of wait_for_job_completion sleeps at most max_attempts - 1 times:
\* never after the final attempt and never after a terminal result.
C2_SleepsBounded ==
  PollCalled =>
    /\ sleeps <= max_attempts - 1
    /\ pc = "sleep" => (attempt < max_attempts - 1 /\ NonTerminalResponse(status_response[1]))

\* C3: when the k-th response is HTTP 200 with status "completed" and the k-1
\* earlier ones were non-terminal, wait_for_job_completion returns the whole body
\* of that response (Success) after exactly k queries, and queries no more.
C3_CompletedInv ==
  /\ (LastHandled /\ LastCode = 200 /\ LastBody.kind = "dict"
        /\ LastBody.status = Some("completed") /\ nonterminal = queries - 1) =>
       /\ poll_outcome = "Success"
       /\ completed_data = Some(LastBody)
       /\ queries = attempt + 1
  /\ poll_outcome = "Success" =>
       (LastCode = 200 /\ LastBody.status = Some("completed") /\ nonterminal = queries - 1)

C3_Completed ==
  []C3_CompletedInv /\ [][poll_outcome = "Success" => queries' = queries]_vars

C3_Witness ==
  /\ poll_outcome = "Success"
  /\ queries = 3
  /\ nonterminal = 2
  /\ completed_data[1].data # None

\* C4: when the k-th response reports status "failed" (earlier ones non-terminal),
\* wait_for_job_completion ends as Failed at once: exactly k queries, none later,
\* whatever number of attempts remains.
C4_FailedInv ==
  /\ (LastHandled /\ LastCode = 200 /\ LastBody.kind = "dict"
        /\ LastBody.status = Some("failed") /\ nonterminal = queries - 1) =>
       /\ poll_outcome = "Failed"
       /\ completed_data = None
       /\ queries = attempt + 1
  /\ poll_outcome = "Failed" =>
       (LastCode = 200 /\ LastBody.status = Some("failed") /\ nonterminal = queries - 1)

C4_Failed ==
  []C4_FailedInv /\ [][poll_outcome = "Failed" => queries' = queries]_vars

C4_Witness ==
  /\ poll_outcome = "Failed"
  /\ queries = 2
  /\ queries < max_attempts

\* C5: when the k-th response has an HTTP status other than 200 (earlier ones
\* non-terminal), wait_for_job_completion ends as TransportError at once, after
\* exactly k queries: the query is never retried, even when attempts remain.
C5_TransportInv ==
  /\ (LastHandled /\ LastCode # 200 /\ nonterminal = queries - 1) =>
       /\ poll_outcome = "TransportError"
       /\ completed_data = None
       /\ queries = attempt + 1
  /\ poll_outcome = "TransportError" => (LastCode # 200 /\ nonterminal = queries - 1)

C5_TransportError ==
  []C5_TransportInv /\ [][poll_outcome = "TransportError" => queries' = queries]_vars

C5_Witness ==
  /\ poll_outcome = "TransportError"
  /\ LastCode = 500
  /\ queries = 1
  /\ max_attempts > 1

\* C6: when each of the max_attempts attempts gets an HTTP 200 response with a
\* non-terminal status (an absent status included), wait_for_job_completion ends
\* as TimedOut after exactly max_attempts queries and returns no payload.
C6_TimedOut ==
  /\ (PollCalled /\ nonterminal = max_attempts /\ pc \in {"returned", "done"}) =>
       /\ poll_outcome = "TimedOut"
       /\ completed_data = None
       /\ queries = max_attempts
  /\ poll_outcome = "TimedOut" =>
       (queries = max_attempts /\ nonterminal = max_attempts /\ completed_data = None)

C6_Witness ==
  /\ poll_outcome = "TimedOut"
  /\ max_attempts = 2
  /\ queries = 2
  /\ LastBody.status = None

\* C7: whatever the endpoint answers, a polling session returns in exactly one of
\* Success, Failed, TimedOut, TransportError, and a payload it returns never
\* carries a non-terminal status (here: every query of the session was answered).
C7_FourOutcomes ==
  (PollCalled /\ pc \in {"returned", "done"} /\ status_response # None) =>
    /\ poll_outcome \in {"Success", "Failed", "TimedOut", "TransportError"}
    /\ completed_data # None =>
         completed_data[1].status \in {Some("completed"), Some("failed")}

\* C8: an HTTP 200 response whose body cannot be decoded into a status structure
\* makes wait_for_job_completion return TransportError to its caller at once.
C8_MalformedIsTransportError ==
  (LastHandled /\ LastCode = 200 /\ LastBody.kind # "dict") =>
    /\ poll_outcome = "TransportError"
    /\ ~raised
    /\ fault = "none"

\* the description in the metadata of the first data item of the returned payload
FoundDescription ==
  LET b == completed_data[1] IN
    IF b.data = None THEN None
    ELSE IF Len(b.data[1]) = 0 THEN None
    ELSE IF b.data[1][1].metadata = None THEN None
    ELSE b.data[1][1].metadata[1].description

\* C9: a written output file holds exactly one row; its company_description is
\* the description found in the metadata of the first data item of the completed
\* payload, its company_industry and who_they_serve are the literal "no info".
C9_OutputRow ==
  file # None =>
    /\ poll_outcome = "Success"
    /\ file[1].header = Columns
    /\ Len(file[1].rows) = 1
    /\ file[1].rows[1].company_industry = "no info"
    /\ file[1].rows[1].who_they_serve = "no info"
    /\ FoundDescription # None => file[1].rows[1].company_description = FoundDescription[1]

C9_Witness ==
  /\ file # None
  /\ queries = 3
  /\ FoundDescription = Some("Widget maker")
  /\ file[1].rows = <<[company_description |-> "Widget maker",
                       company_industry |-> "no info",
                       who_they_serve |-> "no info"]>>

\* C10: with no credential configured (FIREFLOW_API_KEY unset or empty) the run
\* ends with an absent result and makes no submission, no status query and no
\* file write.
C10_MissingCredential ==
  (entry = "crawl" /\ api_key \in {None, Some("")}) =>
    /\ posts = 0
    /\ queries = 0
    /\ writes = 0
    /\ file = None
    /\ pc \in {"start", "done"}
    /\ result = None
    /\ ~raised

C10_Witness ==
  /\ entry = "crawl"
  /\ api_key = Some("")
  /\ pc = "done"
  /\ result = None
  /\ posts = 0

\* C11: when the submission response is not HTTP 200, or is HTTP 200 without a job
\* identifier, the run ends with an absent result: wait_for_job_completion is not
\* called, no status query is made and no output file is written.
C11_SubmissionError ==
  (response # None /\ (response[1].status_code # 200 \/ response[1].body.jobId = None)) =>
    /\ pc = "done"
    /\ result = None
    /\ ~raised
    /\ poll_calls = 0
    /\ queries = 0
    /\ writes = 0
    /\ file = None

C11_Witness ==
  /\ response # None
  /\ response[1].status_code = 200
  /\ response[1].body.kind = "dict"
  /\ response[1].body.jobId = None
  /\ pc = "done"
  /\ result = None

\* C12: the output file is written and a one-row result returned only in a run
\* whose poll ended in Success (HTTP 200, status "completed"); on every failure
\* path (missing credential, submission error, transport error, failed job,
\* attempts exhausted, an exception) the result is absent and no file is written.
C12_OnlySuccessWrites ==
  entry = "crawl" =>
    /\ (file # None \/ result # None \/ writes > 0) =>
         /\ poll_outcome = "Success"
         /\ status_response[1].status_code = 200
         /\ status_response[1].body.status = Some("completed")
         /\ fault = "none"
         /\ Len(result[1]) = 1
         /\ file = Some([header |-> Columns, rows |-> result[1]])
    /\ (pc = "done" /\ (poll_outcome # "Success" \/ fault # "none")) =>
         (result = None /\ file = None /\ writes = 0)

C12_Witness ==
  /\ entry = "crawl"
  /\ pc = "done"
  /\ poll_outcome = "Failed"
  /\ queries = 2
  /\ result = None
  /\ file = None

\* C13: whenever the poll of a run ends in Success, whatever the completed payload
\* holds (no data field, an empty data list, an item without metadata), the run
\* writes the one-row file and returns that row (the file system accepting the
\* write).
C13_SuccessAlwaysWrites ==
  (entry = "crawl" /\ pc = "done" /\ poll_outcome = "Success" /\ fault # "write") =>
    /\ file # None
    /\ Len(file[1].rows) = 1
    /\ result = Some(file[1].rows)

\* C14: a fault raised after the credential check (by the submission call, by a
\* status query, by decoding a response, by building or writing the output) is
\* caught by crawl_bizbuysell: the run ends with an absent result and no exception
\* reaches the caller.
C14_FaultsCaught ==
  entry = "crawl" =>
    /\ ~raised
    /\ fault # "none" => (pc = "done" /\ result = None)

C14_Witness ==
  /\ entry = "crawl"
  /\ fault = "decode"
  /\ queries = 2
  /\ pc = "done"
  /\ result = None
  /\ ~raised

\* C15: in a run wait_for_job_completion is called at most once, and only after
\* the single submission answered HTTP 200 with a job identifier; every status
\* query targets that identifier, and no submission follows a status query.
C15_Inv ==
  entry = "crawl" =>
    /\ poll_calls <= 1
    /\ posts <= 1
    /\ (poll_calls = 1 \/ queries > 0) =>
         /\ posts = 1
         /\ poll_calls = 1
         /\ response # None
         /\ response[1].status_code = 200
         /\ response[1].body.jobId # None
         /\ job_id = response[1].body.jobId
    /\ queries > 0 => query_target = response[1].body.jobId

C15_PollOnceAfterSubmit ==
  []C15_Inv /\ [][(entry = "crawl" /\ queries > 0) => posts' = posts]_vars

C15_Witness ==
  /\ entry = "crawl"
  /\ queries = 3
  /\ posts = 1
  /\ poll_calls = 1
  /\ query_target = Some("job-2")

\* C16: within one call of wait_for_job_completion queries and sleeps alternate:
\* exactly one sleep of delay seconds lies between two consecutive queries, a
\* sleep directly follows an HTTP 200 response with a non-terminal status, and
\* each such response consumes exactly one attempt.
C16_Inv ==
  /\ pc = "loop" => (sleeps = queries /\ attempt = nonterminal)
  /\ pc = "inspect" => sleeps = queries - 1
  /\ pc = "sleep" => (sleeps = queries - 1 /\ NonTerminalResponse(status_response[1]))
  /\ sleeps \in {queries - 1, queries} \/ queries = 0
  /\ slept = sleeps * delay
  /\ pc \in {"loop", "returned", "done"} => (sleeps = nonterminal /\ attempt = nonterminal)

C16_Alternation ==
  /\ []C16_Inv
  /\ [][/\ queries' # queries => (queries' = queries + 1 /\ sleeps = queries /\ sleeps' = sleeps)
        /\ sleeps' # sleeps =>
             /\ sleeps' = sleeps + 1
             /\ sleeps = queries - 1
             /\ queries' = queries
             /\ NonTerminalResponse(status_response[1])
             /\ slept' = slept + delay
             /\ attempt' = attempt + 1]_vars

C16_Witness ==
  /\ pc = "inspect"
  /\ queries = 3
  /\ sleeps = 2
  /\ delay = 1
  /\ slept = 2

\* C17: wait_for_job_completion returns a present, non-empty payload exactly when
\* it ends in Success; Failed, TimedOut and TransportError all return the same
\* absent value, so the return value does not tell these outcomes apart.
C17_ReturnValue ==
  /\ poll_outcome = "Success" =>
       (completed_data # None /\ completed_data[1].status = Some("completed"))
  /\ poll_outcome \in {"Failed", "TimedOut", "TransportError"} => completed_data = None
  /\ completed_data # None => poll_outcome = "Success"

C17_Witness ==
  /\ poll_outcome = "TransportError"
  /\ completed_data = None
  /\ queries = 2
  /\ status_response[1].body.status = Some("completed")
====
